---------------------------- MODULE Spec2Model ----------------------------
(***************************************************************************)
(* Model of ahd (src/ahd/cli.py): the ad-hoc command registry and          *)
(* dispatcher.  One run of the `ahd` executable is one call of main().     *)
(* The state that survives a run is the file system (the store file, the   *)
(* exported file, the completion script); the state of the run itself is   *)
(* the global ConfigParser object, the parsed arguments and the list of    *)
(* subprocesses started so far.                                            *)
(*                                                                         *)
(* A Python str is modelled as a sequence of one-character strings, so     *)
(* that split, strip, replace, repr and %-interpolation are computed       *)
(* character by character as Python computes them.                         *)
(***************************************************************************)
EXTENDS Integers, Sequences, FiniteSets, TLC

(***************************************************************************)
(* Bounds of the model.                                                    *)
(***************************************************************************)
\* number of runs of the executable in one behaviour
MaxRuns == 2

(***************************************************************************)
(* Python str operations used by cli.py.                                   *)
(***************************************************************************)
RECURSIVE replace(_, _, _)
\* s.replace(old, new) for a one-character old
replace(s, old, new) ==
    IF s = <<>> THEN <<>>
    ELSE (IF Head(s) = old THEN new ELSE <<Head(s)>>) \o replace(Tail(s), old, new)

RECURSIVE find(_, _)
\* s.find(c) + 1 for a one-character c: the 1-based position of the first
\* c in s, 0 when there is none
find(s, c) ==
    IF s = <<>> THEN 0
    ELSE IF Head(s) = c THEN 1
    ELSE LET p == find(Tail(s), c) IN IF p = 0 THEN 0 ELSE p + 1

\* c in s
contains(s, c) == find(s, c) # 0

RECURSIVE split(_, _)
\* s.split(sep) for a one-character sep: never empty, keeps empty fields
split(s, sep) ==
    LET p == find(s, sep) IN
    IF p = 0 THEN <<s>>
    ELSE <<SubSeq(s, 1, p - 1)>> \o split(SubSeq(s, p + 1, Len(s)), sep)

\* the characters str.strip() removes
Whitespace == {" ", "\t", "\n"}

RECURSIVE lstrip(_)
lstrip(s) ==
    IF s # <<>> /\ Head(s) \in Whitespace THEN lstrip(Tail(s)) ELSE s

RECURSIVE rstrip(_)
rstrip(s) ==
    IF s # <<>> /\ s[Len(s)] \in Whitespace
    THEN rstrip(SubSeq(s, 1, Len(s) - 1)) ELSE s

\* s.strip()
strip(s) == rstrip(lstrip(s))

\* s.startswith(c) for a one-character c
startswith(s, c) == s # <<>> /\ Head(s) = c

\* s[1:-1:]
slice_1_m1(s) == SubSeq(s, 2, Len(s) - 1)

\* repr(s) of a str: single quotes unless s holds a single quote and no
\* double quote; the backslash and the chosen quote are escaped
repr(s) ==
    LET q == IF contains(s, "'") /\ ~contains(s, "\"") THEN "\"" ELSE "'"
        e == replace(replace(s, "\\", <<"\\", "\\">>), q,
                     IF q = "'" THEN <<"\\", "'">> ELSE <<q>>)
    IN  <<q>> \o e \o <<q>>

RECURSIVE join_reprs(_)
\* ', '.join(repr(x) for x in list)
join_reprs(list) ==
    IF list = <<>> THEN <<>>
    ELSE IF Len(list) = 1 THEN repr(Head(list))
    ELSE repr(Head(list)) \o <<",", " ">> \o join_reprs(Tail(list))

\* str(list) of a list of str
str_list(list) == <<"[">> \o join_reprs(list) \o <<"]">>

(***************************************************************************)
(* configparser.ConfigParser as cli.py uses it (cli.py:28,63): sections    *)
(* are functions from option names to raw values, values are read back     *)
(* through BasicInterpolation, and a failed call is a result record with   *)
(* the name of the exception.                                              *)
(***************************************************************************)
command_key == <<"c", "o", "m", "m", "a", "n", "d">>
paths_key == <<"p", "a", "t", "h", "s">>

Ok(v) == [err |-> "", val |-> v]
Err(e) == [err |-> e, val |-> <<>>]
\* prefix + the result r, unless r is an exception
Cat(prefix, r) == IF r.err # "" THEN r ELSE Ok(prefix \o r.val)

\* the end of the match of _KEYCRE = "%\(([^)]+)\)s" at the start of r
\* (r starts with "%("), 0 when it does not match
KeyEnd(r) ==
    LET close == find(r, ")") IN
    IF Len(r) >= 2 /\ r[1] = "%" /\ r[2] = "(" /\ close > 3
       /\ Len(r) > close /\ r[close + 1] = "s"
    THEN close + 1 ELSE 0

RECURSIVE _interpolate_some(_, _, _)
\* BasicInterpolation._interpolate_some: "%%" is "%", "%(option)s" is the
\* value of the option in the same section, expanded in turn
_interpolate_some(rest, map, depth) ==
    IF depth > 10 THEN Err("InterpolationDepthError")
    ELSE LET p == find(rest, "%") IN
    IF p = 0 THEN Ok(rest)
    ELSE LET pre == SubSeq(rest, 1, p - 1)
             r == SubSeq(rest, p, Len(rest))
         IN  IF Len(r) >= 2 /\ r[2] = "%"
             THEN Cat(pre \o <<"%">>,
                      _interpolate_some(SubSeq(r, 3, Len(r)), map, depth))
             ELSE IF Len(r) >= 2 /\ r[2] = "("
             THEN LET e == KeyEnd(r)
                      var == SubSeq(r, 3, e - 2)
                  IN  IF e = 0 THEN Err("InterpolationSyntaxError")
                      ELSE IF var \notin DOMAIN map
                      THEN Err("InterpolationMissingOptionError")
                      ELSE LET v == map[var]
                               sub == IF contains(v, "%")
                                      THEN _interpolate_some(v, map, depth + 1)
                                      ELSE Ok(v)
                           IN  IF sub.err # "" THEN sub
                               ELSE Cat(pre \o sub.val,
                                        _interpolate_some(
                                            SubSeq(r, e + 1, Len(r)), map, depth))
             ELSE Err("InterpolationSyntaxError")

RECURSIVE RemoveEscapes(_)
\* value.replace('%%', '')
RemoveEscapes(s) ==
    IF s = <<>> THEN <<>>
    ELSE IF Len(s) >= 2 /\ s[1] = "%" /\ s[2] = "%"
    THEN RemoveEscapes(SubSeq(s, 3, Len(s)))
    ELSE <<Head(s)>> \o RemoveEscapes(Tail(s))

RECURSIVE RemoveKeys(_)
\* _KEYCRE.sub('', value)
RemoveKeys(s) ==
    IF s = <<>> THEN <<>>
    ELSE IF KeyEnd(s) # 0 THEN RemoveKeys(SubSeq(s, KeyEnd(s) + 1, Len(s)))
    ELSE <<Head(s)>> \o RemoveKeys(Tail(s))

\* BasicInterpolation.before_set accepts the value (RawConfigParser.set
\* skips the check for an empty value)
before_set_ok(value) == value = <<>> \/ ~contains(RemoveKeys(RemoveEscapes(value)), "%")

\* getitem as a get with an empty fallback for what is not there
getitem_fallback(cfg, section, option) ==
    IF section \notin DOMAIN cfg THEN Ok(<<>>)
    ELSE IF option \notin DOMAIN cfg[section] THEN Ok(<<>>)
    ELSE _interpolate_some(cfg[section][option], cfg[section], 1)

\* config[section][option]: SectionProxy.__getitem__, an interpolated get
getitem(cfg, section, option) ==
    IF section \notin DOMAIN cfg THEN Err("KeyError")
    ELSE IF option \notin DOMAIN cfg[section] THEN Err("KeyError")
    ELSE _interpolate_some(cfg[section][option], cfg[section], 1)

\* f with f[k] = v
Put(f, k, v) == [x \in DOMAIN f \cup {k} |-> IF x = k THEN v ELSE f[x]]

\* the empty mapping
Empty == [x \in {} |-> <<>>]

\* setitem as an update that keeps the stored command when the new one
\* is empty
setitem_merge(cfg, key, command, paths) ==
    LET old == IF key \in DOMAIN cfg THEN cfg[key] ELSE Empty
        c == IF command = <<>> /\ command_key \in DOMAIN old
             THEN old[command_key] ELSE command
    IN  [err |-> "",
         cfg |-> Put(cfg, key,
                     Put(Put(old, command_key, c), paths_key, paths))]

\* config[key] = {"command": command, "paths": paths}: __setitem__ clears
\* the section, then read_dict sets the options in order; a value that
\* before_set rejects raises ValueError and leaves the section as it is
\* at that point
setitem(cfg, key, command, paths) ==
    LET cleared == Put(cfg, key, Empty) IN
    IF ~before_set_ok(command)
    THEN [err |-> "ValueError", cfg |-> cleared]
    ELSE LET c1 == Put(cfg, key, Put(Empty, command_key, command)) IN
         IF ~before_set_ok(paths)
         THEN [err |-> "ValueError", cfg |-> c1]
         ELSE [err |-> "",
               cfg |-> Put(cfg, key, Put(c1[key], paths_key, paths))]

(***************************************************************************)
(* Files.  A store file is kept as the sections and raw values that        *)
(* config.write put in it; corrupt means its text is not a sectioned       *)
(* key/value store any more.                                               *)
(***************************************************************************)
NoFile == [exists |-> FALSE, corrupt |-> FALSE, sections |-> Empty]

\* config.write(file) into a file opened with "w"
write(cfg) == [exists |-> TRUE, corrupt |-> FALSE, sections |-> cfg]

\* what RawConfigParser._read makes of a written file: every value is
\* stripped of surrounding whitespace
parse(file) ==
    [s \in DOMAIN file.sections |->
        [o \in DOMAIN file.sections[s] |-> strip(file.sections[s][o])]]

\* the sections of cfg overwritten, option by option, by those of new
merge(cfg, new) ==
    [s \in DOMAIN cfg \cup DOMAIN new |->
        IF s \notin DOMAIN new THEN cfg[s]
        ELSE IF s \notin DOMAIN cfg THEN new[s]
        ELSE [o \in DOMAIN cfg[s] \cup DOMAIN new[s] |->
                 IF o \in DOMAIN new[s] THEN new[s][o] ELSE cfg[s][o]]]

RECURSIVE read(_, _, _)
\* config.read(filenames): each element of filenames is opened as a file
\* name; one that cannot be opened (OSError) is skipped, one that does
\* not parse raises
read(cfg, filenames, files) ==
    IF filenames = <<>> THEN [err |-> "", cfg |-> cfg]
    ELSE LET fn == Head(filenames) IN
         IF fn \notin DOMAIN files \/ ~files[fn].exists
         THEN read(cfg, Tail(filenames), files)
         ELSE IF files[fn].corrupt THEN [err |-> "ParsingError", cfg |-> cfg]
         ELSE read(merge(cfg, parse(files[fn])), Tail(filenames), files)

RECURSIVE section_lines(_, _)
\* the lines config.write makes of the options ks of one section
section_lines(sec, ks) ==
    IF ks = {} THEN <<>>
    ELSE LET k == CHOOSE x \in ks : TRUE IN
         <<k \o <<" ", "=", " ">> \o sec[k] \o <<"\n">>>>
         \o section_lines(sec, ks \ {k})

RECURSIVE lines(_, _)
\* what iterating over an open file yields: its lines, each with its
\* newline.  ns is the set of sections still to be listed.
lines(file, ns) ==
    IF file.corrupt THEN << <<"garbage", "\n">> >>
    ELSE IF ns = {} THEN <<>>
    ELSE LET n == CHOOSE x \in ns : TRUE IN
         << <<"[", n, "]", "\n">> >>
         \o section_lines(file.sections[n], DOMAIN file.sections[n])
         \o << <<"\n">> >> \o lines(file, ns \ {n})

(***************************************************************************)
(* cli.py                                                                  *)
(***************************************************************************)
\* CONFIG_FILE_PATH (cli.py:66): the store file, next to the module
CONFIG_FILE_PATH == <<"pkg", "/", ".ahdconfig">>
\* f"{os.curdir}{os.sep}.ahdconfig" (cli.py:145,146): where --export writes
EXPORT_PATH == <<".", "/", ".ahdconfig">>
\* a store file somebody else exported, and a path where there is no file
SHARED_PATH == <<"shared.cfg">>
MISSING_PATH == <<"missing.cfg">>
FilePaths == {CONFIG_FILE_PATH, EXPORT_PATH, SHARED_PATH, MISSING_PATH}

\* the inputs of the runs
Names == {"build", "lint"}
Dot == <<".">>
Commands ==
    { <<>>, Dot, <<"m", "k">>, <<" ", "m", "k">>,
      <<"e", "%", "(", "p", "a", "t", "h", "s", ")", "s">> }
PathInputs ==
    { <<>>, <<"/", "a">>, <<"/", "a", ",", " ", "b", "\\", "c">> }
InvokeCommands == { <<>>, Dot, <<"m", "k">> }
InvokePaths == { <<>>, <<"/", "a">> }
ImportPaths == { <<>>, EXPORT_PATH, SHARED_PATH, MISSING_PATH }

\* the content of the shared file and of a store left by earlier runs
Entry(c, p) == Put(Put(Empty, command_key, c), paths_key, p)
SharedSections ==
    Put(Empty, "build", Entry(<<"s", "h">>, str_list(<< <<"/", "s">> >>)))
InstalledSections ==
    Put(Empty, "build",
        Entry(<<"m", "k">>, str_list(<< <<"/", "a">>, <<"/", "b">> >>)))

VARIABLES
    os_name,     \* os.name of the host: "posix" or "nt"
    files,       \* the files, by path
    completion,  \* the command names in /etc/bash_completion.d/ahd.sh
    config,      \* the sections of the global ConfigParser of the run
    arguments,   \* the parsed command line of the run
    loaded,      \* the sections of config when the arguments are handled
    before,      \* the store file when the run started
    status,      \* "none": no run, "running": in the dispatch loop,
                 \* "ok": main returned, else the exception that ended it
    todo,        \* the directories the dispatch iterates over
    bracketed,   \* the dispatch is that of a "[...]" list (cli.py:131)
    idx,         \* the position of the dispatch in todo
    launched,    \* the instructions handed to subprocess.Popen, in order
    procs,       \* the state of each launched subprocess
    runs         \* the number of runs started

vars == <<os_name, files, completion, config, arguments, loaded, before,
          status, todo, bracketed, idx, launched, procs, runs>>

NoArguments ==
    [kind |-> "none", name |-> "", command |-> <<>>, paths |-> <<>>,
     export |-> FALSE, import |-> <<>>]

Init ==
    /\ os_name \in {"posix", "nt"}
    /\ \E installed \in {NoFile, write(InstalledSections)} :
          files = [f \in FilePaths |->
                      IF f = CONFIG_FILE_PATH THEN installed
                      ELSE IF f = SHARED_PATH THEN write(SharedSections)
                      ELSE NoFile]
    /\ completion = {}
    /\ config = Empty
    /\ arguments = NoArguments
    /\ loaded = Empty
    /\ before = NoFile
    /\ status = "none"
    /\ todo = <<>>
    /\ bracketed = FALSE
    /\ idx = 0
    /\ launched = <<>>
    /\ procs = <<>>
    /\ runs = 0

RECURSIVE strip_each(_)
strip_each(list) ==
    IF list = <<>> THEN <<>>
    ELSE <<strip(replace(Head(list), "\\", <<"/">>))>> \o strip_each(Tail(list))

\* _preprocess_paths(paths): the list of the comma-separated paths, each
\* with forward slashes and stripped
_preprocess_paths(paths) == strip_each(split(paths, ","))

\* load that starts a new empty store when the file does not parse
load_reset(fs) ==
    IF fs[CONFIG_FILE_PATH].exists /\ ~fs[CONFIG_FILE_PATH].corrupt
    THEN LET r == read(Empty, <<CONFIG_FILE_PATH>>, fs)
         IN  [err |-> r.err, cfg |-> r.cfg, files |-> fs]
    ELSE [err |-> "", cfg |-> Empty,
          files |-> [fs EXCEPT ![CONFIG_FILE_PATH] = write(Empty)]]

\* load that leaves a missing store file missing
load_no_create(fs) ==
    IF fs[CONFIG_FILE_PATH].exists
    THEN LET r == read(Empty, <<CONFIG_FILE_PATH>>, fs)
         IN  [err |-> r.err, cfg |-> r.cfg, files |-> fs]
    ELSE [err |-> "", cfg |-> Empty, files |-> fs]

\* cli.py:85-90: read the store file, or create it empty
load(fs) ==
    IF fs[CONFIG_FILE_PATH].exists
    THEN LET r == read(Empty, <<CONFIG_FILE_PATH>>, fs)
         IN  [err |-> r.err, cfg |-> r.cfg, files |-> fs]
    ELSE [err |-> "", cfg |-> Empty,
          files |-> [fs EXCEPT ![CONFIG_FILE_PATH] = write(Empty)]]

\* cli.py:98-101: arguments["<paths>"] after preprocessing, as the str
\* that configparser stores for it
paths_value(paths) ==
    IF paths = <<>> THEN <<>> ELSE str_list(_preprocess_paths(paths))

\* command_value with a shorthand that falls back on the literal input
\* when the name has no section
command_value_bootstrap(cfg, name, command) ==
    IF command = Dot /\ name \in DOMAIN cfg
    THEN getitem(cfg, name, command_key) ELSE Ok(command)

\* cli.py:103-107: arguments["<command>"], "." replaced by the stored one
command_value(cfg, name, command) ==
    IF command = Dot THEN getitem(cfg, name, command_key) ELSE Ok(command)

\* generate_bash_autocomplete(commands) for the built-in commands and
\* every section of config (cli.py:57-60,116-120)
generate_bash_autocomplete(cfg) == {"docs", "register"} \cup DOMAIN cfg

\* the run ends: main returns or an exception leaves it
EndRun(args, ld, cfg, fs, comp, st) ==
    /\ arguments' = args
    /\ loaded' = ld
    /\ config' = cfg
    /\ files' = fs
    /\ completion' = comp
    /\ status' = st
    /\ before' = files[CONFIG_FILE_PATH]
    /\ todo' = <<>>
    /\ bracketed' = FALSE
    /\ idx' = 0
    /\ launched' = <<>>
    /\ procs' = <<>>
    /\ runs' = runs + 1
    /\ UNCHANGED os_name

CanStart == status # "running" /\ runs < MaxRuns

\* ahd register <name> [<command>] [<paths>]  (cli.py:85-127,151);
\* writable: /etc/bash_completion.d/ahd.sh can be opened for writing
Register(name, command, paths, writable) ==
    /\ CanStart
    /\ LET args == [kind |-> "register", name |-> name, command |-> command,
                    paths |-> paths, export |-> FALSE, import |-> <<>>]
           l == load(files)
           c == command_value(l.cfg, name, command)
           s == setitem(l.cfg, name, c.val, paths_value(paths))
       IN  IF l.err # ""
           THEN EndRun(args, Empty, l.cfg, l.files, completion, l.err)
           ELSE IF c.err # ""
           THEN EndRun(args, l.cfg, l.cfg, l.files, completion, c.err)
           ELSE IF s.err # ""
           THEN EndRun(args, l.cfg, s.cfg, l.files, completion, s.err)
           ELSE IF os_name # "nt" /\ ~writable
           THEN EndRun(args, l.cfg, s.cfg, l.files, completion,
                       "PermissionError")
           ELSE EndRun(args, l.cfg, s.cfg,
                       [l.files EXCEPT ![CONFIG_FILE_PATH] = write(s.cfg)],
                       IF os_name # "nt"
                       THEN generate_bash_autocomplete(s.cfg) ELSE completion,
                       "ok")

\* ahd docs  (cli.py:85-96)
Docs ==
    /\ CanStart
    /\ LET args == [NoArguments EXCEPT !.kind = "docs"]
           l == load(files)
       IN  EndRun(args, IF l.err # "" THEN Empty ELSE l.cfg, l.cfg, l.files,
                  completion, IF l.err # "" THEN l.err ELSE "ok")

\* ahd config [-e] [-i CONFIG_FILE_PATH]  (cli.py:85-104,143-151)
Config(export, import) ==
    /\ CanStart
    /\ LET args == [NoArguments EXCEPT !.kind = "config", !.export = export,
                                       !.import = import]
           l == load(files)
           fe == IF export
                 THEN [l.files EXCEPT ![EXPORT_PATH] = write(l.cfg)]
                 ELSE l.files
           r == read(l.cfg, lines(fe[import], DOMAIN fe[import].sections), fe)
       IN  IF l.err # ""
           THEN EndRun(args, Empty, l.cfg, l.files, completion, l.err)
           ELSE IF import = <<>>
           THEN EndRun(args, l.cfg, l.cfg, fe, completion, "ok")
           ELSE IF ~fe[import].exists
           THEN EndRun(args, l.cfg, l.cfg, fe, completion, "FileNotFoundError")
           ELSE EndRun(args, l.cfg, r.cfg, fe, completion,
                       IF r.err # "" THEN r.err ELSE "ok")
\* Invoke that also stores and saves its arguments, as a register does
Invoke_saving(name, command, paths) ==
    /\ CanStart
    /\ LET args == [kind |-> "invoke", name |-> name, command |-> command,
                    paths |-> paths, export |-> FALSE, import |-> <<>>]
           l == load(files)
           c == command_value(l.cfg, name, command)
           p == getitem(l.cfg, name, paths_key)
           native == IF os_name = "nt"
                     THEN replace(p.val, "/", <<"\\">>) ELSE p.val
       IN  IF l.err # ""
           THEN EndRun(args, Empty, l.cfg, l.files, completion, l.err)
           ELSE IF c.err # ""
           THEN EndRun(args, l.cfg, l.cfg, l.files, completion, c.err)
           ELSE IF p.err # ""
           THEN EndRun(args, l.cfg, l.cfg, l.files, completion, p.err)
           ELSE /\ arguments' = args
                /\ loaded' = l.cfg
                /\ config' = Put(l.cfg, name, Entry(c.val, paths_value(paths)))
                /\ files' = [l.files EXCEPT ![CONFIG_FILE_PATH] = write(config')]
                /\ before' = files[CONFIG_FILE_PATH]
                /\ status' = "running"
                /\ bracketed' = startswith(p.val, "[")
                /\ todo' = IF startswith(p.val, "[")
                           THEN split(slice_1_m1(native), ",")
                           ELSE <<p.val>>
                /\ idx' = 1
                /\ launched' = <<>>
                /\ procs' = <<>>
                /\ runs' = runs + 1
                /\ UNCHANGED <<os_name, completion>>

\* ahd <name> [<command>] [<paths>], up to the first subprocess
\* (cli.py:85-107,129-135,140)
Invoke(name, command, paths) ==
    /\ CanStart
    /\ LET args == [kind |-> "invoke", name |-> name, command |-> command,
                    paths |-> paths, export |-> FALSE, import |-> <<>>]
           l == load(files)
           c == command_value(l.cfg, name, command)
           p == getitem(l.cfg, name, paths_key)
           native == IF os_name = "nt"
                     THEN replace(p.val, "/", <<"\\">>) ELSE p.val
       IN  IF l.err # ""
           THEN EndRun(args, Empty, l.cfg, l.files, completion, l.err)
           ELSE IF c.err # ""
           THEN EndRun(args, l.cfg, l.cfg, l.files, completion, c.err)
           ELSE IF p.err # ""
           THEN EndRun(args, l.cfg, l.cfg, l.files, completion, p.err)
           ELSE /\ arguments' = args
                /\ loaded' = l.cfg
                /\ config' = l.cfg
                /\ files' = l.files
                /\ before' = files[CONFIG_FILE_PATH]
                /\ status' = "running"
                /\ bracketed' = startswith(p.val, "[")
                /\ todo' = IF startswith(p.val, "[")
                           THEN split(slice_1_m1(native), ",")
                           ELSE <<p.val>>
                /\ idx' = 1
                /\ launched' = <<>>
                /\ procs' = <<>>
                /\ runs' = runs + 1
                /\ UNCHANGED <<os_name, completion>>

\* f"cd {path} && {command} ".replace("'", "")  (cli.py:138,141)
instruction(path, command) ==
    replace(<<"c", "d", " ">> \o path \o <<" ", "&", "&", " ">> \o command
            \o <<" ">>, "'", <<>>)

\* the directory the shell of Popen(..., shell=True) is in after
\* "cd <path>" (cli.py:138,141): /bin/sh takes a cd without operand to
\* $HOME, cmd.exe stays where it is
HOME == <<"~">>
CURDIR == <<".">>
shell_cwd(path) ==
    IF path # <<>> THEN path
    ELSE IF os_name = "nt" THEN CURDIR ELSE HOME

\* Launch that walks the list from its end
Launch_reversed(spawned) ==
    /\ status = "running"
    /\ LET c == getitem(config, arguments.name, command_key)
           path == IF bracketed THEN strip(todo[Len(todo) + 1 - idx]) ELSE todo[idx]
       IN  IF c.err # ""
           THEN status' = c.err /\ UNCHANGED <<launched, procs, idx>>
           ELSE IF ~spawned
           THEN status' = "OSError" /\ UNCHANGED <<launched, procs, idx>>
           ELSE /\ launched' = Append(launched, instruction(path, c.val))
                /\ procs' = Append(procs, "running")
                /\ idx' = idx + 1
                /\ status' = IF idx = Len(todo) THEN "ok" ELSE "running"
    /\ UNCHANGED <<os_name, files, completion, config, arguments, loaded,
                   before, todo, bracketed, runs>>

\* Launch that runs the command of the command line when there is one
Launch_override(spawned) ==
    /\ status = "running"
    /\ LET c == IF arguments.command \in {<<>>, Dot}
                THEN getitem(config, arguments.name, command_key)
                ELSE Ok(arguments.command)
           path == IF bracketed THEN strip(todo[idx]) ELSE todo[idx]
       IN  IF c.err # ""
           THEN status' = c.err /\ UNCHANGED <<launched, procs, idx>>
           ELSE IF ~spawned
           THEN status' = "OSError" /\ UNCHANGED <<launched, procs, idx>>
           ELSE /\ launched' = Append(launched, instruction(path, c.val))
                /\ procs' = Append(procs, "running")
                /\ idx' = idx + 1
                /\ status' = IF idx = Len(todo) THEN "ok" ELSE "running"
    /\ UNCHANGED <<os_name, files, completion, config, arguments, loaded,
                   before, todo, bracketed, runs>>

\* one subprocess.Popen(..., shell=True) of the dispatch (cli.py:136-141);
\* spawned: the operating system started the shell.  After the last one
\* main returns (cli.py:143,151).
Launch(spawned) ==
    /\ status = "running"
    /\ LET c == getitem(config, arguments.name, command_key)
           path == IF bracketed THEN strip(todo[idx]) ELSE todo[idx]
       IN  IF c.err # ""
           THEN status' = c.err /\ UNCHANGED <<launched, procs, idx>>
           ELSE IF ~spawned
           THEN status' = "OSError" /\ UNCHANGED <<launched, procs, idx>>
           ELSE /\ launched' = Append(launched, instruction(path, c.val))
                /\ procs' = Append(procs, "running")
                /\ idx' = idx + 1
                /\ status' = IF idx = Len(todo) THEN "ok" ELSE "running"
    /\ UNCHANGED <<os_name, files, completion, config, arguments, loaded,
                   before, todo, bracketed, runs>>

\* a launched subprocess ends, whenever it does
ProcExit(k) ==
    /\ k \in 1..Len(procs)
    /\ procs[k] = "running"
    /\ procs' = [procs EXCEPT ![k] = "exited"]
    /\ UNCHANGED <<os_name, files, completion, config, arguments, loaded,
                   before, status, todo, bracketed, idx, launched, runs>>

\* between two runs nothing of the last run is left but the files
BetweenRuns(fs) ==
    /\ status # "running"
    /\ files' = fs
    /\ config' = Empty
    /\ arguments' = NoArguments
    /\ loaded' = Empty
    /\ before' = NoFile
    /\ status' = "none"
    /\ todo' = <<>>
    /\ bracketed' = FALSE
    /\ idx' = 0
    /\ launched' = <<>>
    /\ procs' = <<>>
    /\ UNCHANGED <<os_name, completion, runs>>

\* the store file is damaged outside ahd (an edit, a crash while writing)
CorruptStore ==
    /\ files[CONFIG_FILE_PATH].exists
    /\ ~files[CONFIG_FILE_PATH].corrupt
    /\ BetweenRuns([files EXCEPT ![CONFIG_FILE_PATH].corrupt = TRUE])

\* the store file is lost: the package directory is reinstalled (cli.py:66)
RemoveStore ==
    /\ files[CONFIG_FILE_PATH].exists
    /\ BetweenRuns([files EXCEPT ![CONFIG_FILE_PATH] = NoFile])

Next ==
    \/ \E name \in Names, command \in Commands, paths \in PathInputs,
          writable \in (IF os_name = "nt" THEN {TRUE} ELSE BOOLEAN) :
             Register(name, command, paths, writable)
    \/ \E name \in Names, command \in InvokeCommands, paths \in InvokePaths :
          Invoke(name, command, paths)
    \/ \E spawned \in BOOLEAN : Launch(spawned)
    \/ \E k \in 1..Len(procs) : ProcExit(k)
    \/ \E export \in BOOLEAN, import \in ImportPaths : Config(export, import)
    \/ Docs
    \/ CorruptStore
    \/ RemoveStore

Spec == Init /\ [][Next]_vars

(***************************************************************************)
(* The path list alone: one name is registered with a plain command and    *)
(* one of a wider choice of paths inputs (an apostrophe, an escaped "%",   *)
(* a backslash, blanks), and is invoked.                                   *)
(***************************************************************************)
WidePathInputs ==
    { <<"/", "a">>, <<"a", "\\", "b">>, <<"i", "t", "'", "s">>,
      <<"a", "%", "%", "b">>,
      <<"/", "a", ",", " ", "b", "\\", "c">>,
      <<"i", "t", "'", "s", ",", "/", "b">> }

NextPaths ==
    \/ \E paths \in WidePathInputs :
          Register("build", <<"m", "k">>, paths, TRUE)
    \/ Invoke("build", <<>>, <<>>)
    \/ \E spawned \in BOOLEAN : Launch(spawned)
    \/ \E k \in 1..Len(procs) : ProcExit(k)

SpecPaths == Init /\ [][NextPaths]_vars

(***************************************************************************)
(* Properties.  The store and the registry of a run that has ended are     *)
(* read off the state the run left: arguments and status say what ran and  *)
(* how it ended, before is the store file the run found, loaded the        *)
(* registry it read from it, config the registry it ended with.            *)
(***************************************************************************)
Store == files[CONFIG_FILE_PATH]

\* the store file as the load step leaves it: created empty when missing
AfterLoad == IF before.exists THEN before ELSE write(Empty)

\* C1: on a non-Windows host a register whose write of the completion
\* script fails keeps its entry: the entry is in the registry and is in
\* the store file when the run has ended.
C1_RegistrationKeptOnCompletionFailure ==
    (arguments.kind = "register" /\ status = "PermissionError")
    => /\ arguments.name \in DOMAIN config
       /\ Store.exists
       /\ arguments.name \in DOMAIN Store.sections
       /\ Store.sections[arguments.name] = config[arguments.name]

\* C2: register(name, ".", paths) for a name that has no entry in a
\* readable store ends with KeyError (the UnknownCommand of cli.py:107)
\* and creates nothing: the registry is the one that was loaded and the
\* store file is what the load step left.
C2_ShorthandNeedsKnownName ==
    (/\ arguments.kind = "register"
     /\ arguments.command = Dot
     /\ ~before.corrupt
     /\ arguments.name \notin DOMAIN before.sections)
    => /\ status = "KeyError"
       /\ config = parse(before)
       /\ arguments.name \notin DOMAIN config
       /\ Store = AfterLoad

\* a shorthand registration of an unknown name was refused while the
\* registry held another entry
C2_Witness ==
    /\ arguments.kind = "register"
    /\ arguments.command = Dot
    /\ status = "KeyError"
    /\ arguments.name \notin DOMAIN config
    /\ DOMAIN config # {}
    /\ Store.sections = config

\* C3: register(name, ".", paths) for a name with stored command c leaves
\* the command of the entry equal to c and changes only its paths, which
\* become the ones derived from the supplied paths.
C3_ShorthandKeepsCommand ==
    (/\ arguments.kind = "register"
     /\ arguments.command = Dot
     /\ arguments.name \in DOMAIN loaded
     /\ status = "ok")
    => /\ config[arguments.name][command_key]
            = loaded[arguments.name][command_key]
       /\ config[arguments.name][paths_key] = paths_value(arguments.paths)

\* C4: registering a name that already has an entry replaces the entry:
\* the registry has the same names, the entry of the name is made of the
\* command and the paths of this registration alone, every other entry is
\* as it was, and a run that returns has written just that to the store.
C4_ReRegisterOverwrites ==
    (/\ arguments.kind = "register"
     /\ arguments.command # Dot
     /\ arguments.name \in DOMAIN loaded
     /\ status \in {"ok", "PermissionError"})
    => /\ config = [n \in DOMAIN loaded |->
                       IF n = arguments.name
                       THEN Entry(arguments.command,
                                  paths_value(arguments.paths))
                       ELSE loaded[n]]
       /\ status = "ok" => Store = write(config)

\* a second registration replaced a different entry while another name
\* was registered
C4_Witness ==
    /\ arguments.kind = "register"
    /\ arguments.command # Dot
    /\ status = "ok"
    /\ arguments.name \in DOMAIN loaded
    /\ Cardinality(DOMAIN loaded) = 2
    /\ loaded[arguments.name][command_key] # arguments.command
    /\ loaded[arguments.name][paths_key] # paths_value(arguments.paths)
    /\ loaded[arguments.name][command_key] # <<>>
    /\ arguments.command = <<>>

\* the number of directories of a stored "[...]" list
Directories(raw) == Len(split(slice_1_m1(raw), ","))

\* C5: an invocation of a name whose stored paths are a bracketed list of
\* N directories has launched exactly N subprocesses when it has ended.
C5_LaunchesOnePerDirectory ==
    (/\ arguments.kind = "invoke"
     /\ status \notin {"running", "none"}
     /\ arguments.name \in DOMAIN loaded
     /\ startswith(loaded[arguments.name][paths_key], "["))
    => Len(launched) = Directories(loaded[arguments.name][paths_key])

\* C6: when the launch for one directory fails, the launch for every
\* other directory of the entry is still attempted: the failed attempt
\* that ends the dispatch can only be the last one.
C6_LaunchFailuresIndependent ==
    (arguments.kind = "invoke" /\ status = "OSError") => idx = Len(todo)

RECURSIVE join_commas(_)
\* ','.join(list)
join_commas(list) ==
    IF list = <<>> THEN <<>>
    ELSE IF Len(list) = 1 THEN Head(list)
    ELSE Head(list) \o <<",">> \o join_commas(Tail(list))

\* the canonical pathSpec of a paths input: empty, the bare path, or the
\* bracketed comma list of the normalized paths
Canonical(paths) ==
    LET list == _preprocess_paths(paths) IN
    IF paths = <<>> THEN <<>>
    ELSE IF Len(list) = 1 THEN list[1]
    ELSE <<"[">> \o join_commas(list) \o <<"]">>

\* C7: a register that returns has stored the paths in canonical form.
C7_StoresCanonicalPathSpec ==
    (arguments.kind = "register" /\ status = "ok")
    => /\ config[arguments.name][paths_key] = Canonical(arguments.paths)
       /\ Store.sections[arguments.name][paths_key]
            = Canonical(arguments.paths)

\* C8: after config --import <path> that returns, every entry of the file
\* at path is in the registry with the values of the file, and the
\* entries of the other names are the loaded ones.
C8_ImportMerges ==
    (/\ arguments.kind = "config"
     /\ arguments.import # <<>>
     /\ status = "ok")
    => LET imported == parse(files[arguments.import]) IN
       /\ \A n \in DOMAIN imported :
             n \in DOMAIN config /\ config[n] = imported[n]
       /\ \A n \in DOMAIN loaded \ DOMAIN imported :
             n \in DOMAIN config /\ config[n] = loaded[n]

\* C9: importing the file that --export wrote gives a registry with the
\* entries of the exported registry and the same command and paths.
C9_ExportImportRoundTrip ==
    (/\ arguments.kind = "config"
     /\ arguments.import = EXPORT_PATH
     /\ status = "ok")
    => \A n \in DOMAIN files[EXPORT_PATH].sections :
          /\ n \in DOMAIN config
          /\ config[n][command_key]
               = files[EXPORT_PATH].sections[n][command_key]
          /\ config[n][paths_key] = files[EXPORT_PATH].sections[n][paths_key]

\* C10: when a register or an import that changed the registry has ended,
\* the store file holds exactly the entries and values of the registry.
C10_MutationsAreFlushed ==
    (/\ arguments.kind \in {"register", "config"}
     /\ status \notin {"running", "none"}
     /\ config # loaded)
    => Store = write(config)

\* C11: invoking a name that has no entry in a readable store ends with
\* KeyError (the UnknownCommand of cli.py:107,131): no subprocess is
\* launched, the registry is the one that was loaded and the store file
\* is what the load step left.
C11_InvokeUnknownName ==
    (/\ arguments.kind = "invoke"
     /\ ~before.corrupt
     /\ arguments.name \notin DOMAIN before.sections)
    => /\ status = "KeyError"
       /\ launched = <<>>
       /\ procs = <<>>
       /\ config = parse(before)
       /\ Store = AfterLoad

\* an unknown name was invoked while the registry held another entry
C11_Witness ==
    /\ arguments.kind = "invoke"
    /\ arguments.command = <<>>
    /\ status = "KeyError"
    /\ arguments.name \notin DOMAIN config
    /\ DOMAIN config # {}
    /\ launched = <<>>

\* C12: a run that finds a store file that does not parse ends in an
\* error (the ParsingError of config.read, cli.py:86), whatever the
\* operation, and writes no file: the corrupt store is left as it is.
C12_CorruptStoreNeverOverwritten ==
    [][(Store.exists /\ Store.corrupt /\ runs' # runs)
       => /\ status' = "ParsingError"
          /\ files' = files
          /\ launched' = <<>>]_vars

\* a register, an invocation or an export ended on a corrupt store
C12_Witness ==
    /\ arguments.kind \in {"register", "invoke", "config"}
    /\ arguments.kind = "config" => arguments.export
    /\ status = "ParsingError"
    /\ before.corrupt
    /\ Store = before
    /\ DOMAIN Store.sections # {}

\* C13: a run that finds no store file loads an empty registry and
\* creates the store file at once: the file exists when the run has
\* ended, empty unless the run is a register that wrote its entry.
C13_MissingStoreCreated ==
    (arguments.kind # "none" /\ ~before.exists)
    => /\ loaded = Empty
       /\ Store.exists
       /\ ~Store.corrupt
       /\ \/ Store = write(Empty)
          \/ /\ arguments.kind = "register"
             /\ status = "ok"
             /\ Store = write(config)
             /\ DOMAIN config = {arguments.name}

\* an invocation on a fresh installation left an empty store file
C13_Witness ==
    /\ arguments.kind = "invoke"
    /\ ~before.exists
    /\ Store = write(Empty)
    /\ status = "KeyError"

\* a path with the separator of the host (cli.py:133-134)
Native(path) ==
    IF os_name = "nt" THEN replace(path, "/", <<"\\">>) ELSE path

\* "cd <dir> && <command>"
CdAnd(dir, command) ==
    <<"c", "d", " ">> \o dir \o <<" ", "&", "&", " ">> \o command

\* C14: when a name registered with command c and N >= 2 paths has been
\* invoked, the launched instructions are "cd pi && c" for the normalized
\* paths p1..pN in turn, c being the stored command as it is.  (The
\* blank that ends every composed instruction is not counted.)
C14_LaunchesCdAndLiteralCommand ==
    \A p \in PathInputs :
        (/\ arguments.kind = "invoke"
         /\ status \notin {"running", "none"}
         /\ ~before.corrupt
         /\ arguments.name \in DOMAIN before.sections
         /\ Len(_preprocess_paths(p)) >= 2
         /\ before.sections[arguments.name][paths_key] = paths_value(p))
        => LET dirs == _preprocess_paths(p)
               c == parse(before)[arguments.name][command_key]
           IN  /\ Len(launched) = Len(dirs)
               /\ \A i \in 1..Len(dirs) :
                     rstrip(launched[i]) = rstrip(CdAnd(Native(dirs[i]), c))

\* C15: an invocation of an entry with an empty pathSpec that returns has
\* launched exactly one subprocess, and the shell of that subprocess runs
\* the stored command in the current directory of the process: the cd of
\* the composed instruction changes nothing.
C15_EmptyPathRunsInCurrentDirectory ==
    (/\ arguments.kind = "invoke"
     /\ status = "ok"
     /\ arguments.name \in DOMAIN loaded
     /\ loaded[arguments.name][paths_key] = <<>>)
    => /\ Len(launched) = 1
       /\ shell_cwd(todo[1]) = CURDIR

\* the directories the dispatch changes into: the elements of the stored
\* list as they stand in the composed instructions (cli.py:135-138,141)
DispatchDirs ==
    [i \in 1..Len(todo) |->
        replace(IF bracketed THEN strip(todo[i]) ELSE todo[i], "'", <<>>)]

\* the run is an invocation that reached the dispatch of the entry that
\* a register(name, command, p) stored
Dispatches(p) ==
    /\ arguments.kind = "invoke"
    /\ status \in {"running", "ok", "OSError"}
    /\ ~before.corrupt
    /\ arguments.name \in DOMAIN before.sections
    /\ before.sections[arguments.name][paths_key] = paths_value(p)

\* C16: a single path stored by a registration is, at dispatch time, a
\* list of exactly one directory, that path (normalized as the
\* registration normalizes it, with the separator of the host).
C16_SinglePathRoundTrip ==
    \A p \in WidePathInputs :
        (Dispatches(p) /\ Len(_preprocess_paths(p)) = 1)
        => DispatchDirs = << Native(_preprocess_paths(p)[1]) >>

\* C17: N >= 2 paths stored by a registration are stored between "[" and
\* "]" and are, at dispatch time, exactly N elements without surrounding
\* whitespace and without quote characters.
C17_MultiPathStoredAndParsed ==
    \A p \in WidePathInputs :
        (Dispatches(p) /\ Len(_preprocess_paths(p)) >= 2)
        => LET stored == before.sections[arguments.name][paths_key] IN
           /\ startswith(stored, "[")
           /\ stored[Len(stored)] = "]"
           /\ Len(DispatchDirs) = Len(_preprocess_paths(p))
           /\ \A i \in 1..Len(DispatchDirs) :
                 /\ strip(DispatchDirs[i]) = DispatchDirs[i]
                 /\ ~contains(DispatchDirs[i], "'")
                 /\ ~contains(DispatchDirs[i], "\"")

\* C18: an invocation only reads: no step of it changes the entries of
\* the store file or any other file, and its registry is the one the
\* store held when it started; a step that changes the entries of the
\* store is a register (or the loss of the file).
C18_InvokeOnlyReads ==
    [][/\ arguments'.kind = "invoke"
          => /\ Store'.sections = Store.sections
             /\ Store'.corrupt = Store.corrupt
             /\ \A f \in FilePaths \ {CONFIG_FILE_PATH} : files'[f] = files[f]
             /\ config' = IF runs' = runs THEN config
                          ELSE IF Store.corrupt THEN Empty ELSE parse(Store)
       /\ Store'.sections # Store.sections
          => arguments'.kind \in {"register", "none"}]_vars

\* a known name was invoked with a command and paths on the command
\* line, and its subprocesses were launched
C18_Witness ==
    /\ arguments.kind = "invoke"
    /\ arguments.command = <<"m", "k">>
    /\ arguments.paths # <<>>
    /\ status = "ok"
    /\ Len(launched) = 2
    /\ Store = before
    /\ config = loaded
    /\ Cardinality(DOMAIN config) = 2

\* the directories and the command that the registry holds for the
\* invoked name, as config[name][...] gives them (cli.py:131-141)
StoredPaths == getitem(loaded, arguments.name, paths_key).val
StoredCommand == getitem(loaded, arguments.name, command_key).val
StoredDirs ==
    IF startswith(StoredPaths, "[")
    THEN LET list == split(slice_1_m1(Native(StoredPaths)), ",")
         IN  [i \in 1..Len(list) |-> strip(list[i])]
    ELSE <<StoredPaths>>
Dispatching ==
    arguments.kind = "invoke" /\ status \in {"running", "ok", "OSError"}

\* C19: in the dispatch of a "[...]" list the subprocesses are launched
\* in the order of the list: what has been launched so far is always the
\* instructions of the first directories of the list, in that order.
C19_LaunchedInListOrder ==
    (Dispatching /\ startswith(StoredPaths, "["))
    => /\ Len(launched) <= Len(StoredDirs)
       /\ Len(procs) = Len(launched)
       /\ \A i \in 1..Len(launched) :
             launched[i] = instruction(StoredDirs[i], StoredCommand)

\* two different directories have been launched, the first of the list
\* first
C19_Witness ==
    /\ Dispatching
    /\ startswith(StoredPaths, "[")
    /\ Len(launched) = 2
    /\ StoredDirs[1] # StoredDirs[2]
    /\ launched[1] = instruction(StoredDirs[1], StoredCommand)
    /\ launched[1] # launched[2]

\* C20: when a known name is invoked with a command or paths on the
\* command line, what is launched is made of the stored command and the
\* stored directories alone, and the registry and the store file are the
\* ones the run found.
C20_InvocationArgumentsIgnored ==
    (/\ Dispatching
     /\ arguments.command # <<>> \/ arguments.paths # <<>>)
    => /\ \A i \in 1..Len(launched) :
             /\ i <= Len(StoredDirs)
             /\ launched[i] = replace(CdAnd(StoredDirs[i], StoredCommand)
                                      \o <<" ">>, "'", <<>>)
       /\ config = loaded
       /\ Store = AfterLoad

\* a name was invoked with a command and paths that differ from the
\* stored ones, and the stored ones were launched
C20_Witness ==
    /\ Dispatching
    /\ status = "ok"
    /\ arguments.command = <<"m", "k">>
    /\ arguments.paths = <<"/", "a">>
    /\ StoredCommand # arguments.command
    /\ StoredCommand # <<>>
    /\ StoredPaths # paths_value(arguments.paths)
    /\ Len(launched) >= 1

=============================================================================
